---- MODULE Spec2Model ----
(***************************************************************************)
(* Model of the customer portal API of src/backend/main.py: API key        *)
(* lifecycle, ticket creation with the keyword auto-responder, and the     *)
(* customer-scoped read endpoints, over one SQLite database.               *)
(*                                                                         *)
(* Requests are handled concurrently (FastAPI runs `def` handlers in a     *)
(* thread pool); each handler opens its own connection.  With the default  *)
(* isolation level of sqlite3.connect, a SELECT reads the committed        *)
(* database, the first INSERT/UPDATE of a handler opens a transaction that *)
(* holds the database's single write lock, and conn.commit() publishes the *)
(* transaction's writes; a connection dropped without commit is rolled     *)
(* back.  A writer that finds the lock taken waits for it.                 *)
(***************************************************************************)
EXTENDS Naturals, Sequences, FiniteSets, TLC

\* ---------------------------------------------------------------- bounds
\* Requests the service receives in one run of the model.
MaxRequests == 3

\* Worker threads that handle requests concurrently.
Procs == {"w1", "w2"}
Customers == {"c1", "c2"}
\* The X-Customer-ID header of a request: not sent, sent empty, or a customer.
Absent == "<absent>"
Headers == {Absent, ""} \cup Customers
\* Plaintext keys, f"sk_{...}": what a caller can present and what
\* secrets.token_urlsafe can draw.  Each request inserts at most one row.
Token(i) == "sk_" \o ToString(i)
Tokens == {Token(i) : i \in 1..MaxRequests}
KeyIds == 1..MaxRequests
TicketIds == 1..MaxRequests
\* Python's None as the auto-responder's result.
None == "<None>"

VARIABLES
    api_keys,          \* committed rows of table api_keys, row id = index
    usage,             \* committed rows of table usage (never written here)
    billing,           \* committed rows of table billing (never written here)
    tickets,           \* committed rows of table tickets, row id = index
    ticket_responses,  \* committed rows of table ticket_responses
    txn,               \* per worker: its connection's open write transaction
    pc,                \* per worker: position in the handler it runs
    req,               \* per worker: the HTTP request (endpoint, header, body)
    old_key_id,        \* rotate_api_key: result[0] of the SELECT
    key,               \* create/rotate: the generated plaintext key
    lastrowid,         \* c.lastrowid of the request's cursor
    ai_response,       \* create_ticket: generate_ai_response's result
    resp,              \* per worker: the HTTP response of its last request
    received,          \* number of requests received so far
    r_subject,         \* auto-responder alone: subject given
    r_message,         \* auto-responder alone: message given
    r_out              \* auto-responder alone: value returned ("" before the call)

tables == <<api_keys, usage, billing, tickets, ticket_responses>>
workers == <<txn, pc, req, old_key_id, key, lastrowid, ai_response, resp, received>>
locals == <<old_key_id, key, lastrowid, ai_response>>
responder == <<r_subject, r_message, r_out>>
vars == <<api_keys, usage, billing, tickets, ticket_responses, txn, pc, req,
          old_key_id, key, lastrowid, ai_response, resp, received,
          r_subject, r_message, r_out>>

\* ------------------------------------------------------------- helpers
\* hashlib.sha256(key).hexdigest(): one digest per key, no two keys share one.
hash_api_key(k) == "sha256:" \o k

NoTx == [open |-> FALSE, api_keys |-> <<>>, tickets |-> <<>>, ticket_responses |-> <<>>]
NoReq == [op |-> "none", header |-> Absent]
NoResp == [status |-> 0]

\* The database's write lock is free for p: no other connection has a transaction open.
LockFree(p) == \A q \in Procs \ {p} : ~txn[q].open

\* The first INSERT/UPDATE on a connection: BEGIN, then a private copy to write.
Begin(p) ==
    IF txn[p].open THEN txn[p]
    ELSE [open |-> TRUE, api_keys |-> api_keys, tickets |-> tickets,
          ticket_responses |-> ticket_responses]

HTTPException(code, detail) == [status |-> code, detail |-> detail]

\* ---------------------------------------------------------------- Init
InitService ==
    /\ api_keys = <<>>
    /\ usage = <<>>
    /\ billing = <<>>
    /\ tickets = <<>>
    /\ ticket_responses = <<>>
    /\ txn = [p \in Procs |-> NoTx]
    /\ pc = [p \in Procs |-> "idle"]
    /\ req = [p \in Procs |-> NoReq]
    /\ old_key_id = [p \in Procs |-> 0]
    /\ key = [p \in Procs |-> ""]
    /\ lastrowid = [p \in Procs |-> 0]
    /\ ai_response = [p \in Procs |-> None]
    /\ resp = [p \in Procs |-> NoResp]
    /\ received = 0

Init ==
    /\ InitService
    /\ r_subject = ""
    /\ r_message = ""
    /\ r_out = ""

\* ------------------------------------------------ request arrival, identity
\* The requests a client can send to the key endpoints.  A request the identity
\* check rejects never has its body read, so one body stands for all.
KeyRequests ==
    {[op |-> "create_api_key", header |-> Absent, customer_id |-> c] : c \in Customers}
    \cup {[op |-> "rotate_api_key", header |-> h, old_key |-> k] :
              h \in Customers, k \in Tokens}
    \cup {[op |-> "rotate_api_key", header |-> h, old_key |-> Token(1)] :
              h \in {Absent, ""}}
    \cup {[op |-> "list_api_keys", header |-> h] : h \in Headers}
    \cup {[op |-> "revoke_api_key", header |-> h, key_id |-> id] :
              h \in Customers, id \in KeyIds}
    \cup {[op |-> "revoke_api_key", header |-> h, key_id |-> 1] : h \in {Absent, ""}}

\* A free worker takes request r; the handler's locals start fresh.
Receive(p, r) ==
    /\ pc[p] \in {"idle", "done", "aborted"}
    /\ received < MaxRequests
    /\ received' = received + 1
    /\ req' = [req EXCEPT ![p] = r]
    /\ pc' = [pc EXCEPT ![p] = "received"]
    /\ resp' = [resp EXCEPT ![p] = NoResp]
    /\ old_key_id' = [old_key_id EXCEPT ![p] = 0]
    /\ key' = [key EXCEPT ![p] = ""]
    /\ lastrowid' = [lastrowid EXCEPT ![p] = 0]
    /\ ai_response' = [ai_response EXCEPT ![p] = None]
    /\ UNCHANGED <<tables, txn, responder>>

ReceiveKeyRequest(p) == \E r \in KeyRequests : Receive(p, r)

\* Worker p is about to run handler o.
Starts(p, o) == pc[p] = "received" /\ req[p].op = o

\* Depends(verify_customer), customer_id: str = Header(..., alias="X-Customer-ID").
\* The parameter is required (...): a request without the header is rejected by
\* request validation with 422 before verify_customer's body runs; the body
\* rejects an empty value with 401.  NoResp: the handler runs.
verify_customer(h) ==
    IF h = Absent THEN HTTPException(422, "Field required")
    ELSE IF h = "" THEN HTTPException(401, "Customer ID required")
    ELSE NoResp

\* The request never reaches the handler: the error is the response.
Reject(p) ==
    /\ resp' = [resp EXCEPT ![p] = verify_customer(req[p].header)]
    /\ pc' = [pc EXCEPT ![p] = "done"]
    /\ UNCHANGED <<tables, txn, locals>>

\* ----------------------------------------------------------- create_api_key
\* secrets.token_urlsafe(32): a key drawn at random.  Keys are only ever compared
\* for equality, so the draws that differ are: a key no row holds (all such keys
\* behave alike; the one numbered after the rows is taken), or a key whose digest
\* a row already holds.
HashTaken(rows, h) == \E i \in 1..Len(rows) : rows[i].key_hash = h

Draws(rows) ==
    {k \in Tokens : k = Token(Len(rows) + 1) \/ HashTaken(rows, hash_api_key(k))}

NewKeyRow(c, k) == [customer_id |-> c, key_hash |-> hash_api_key(k), revoked |-> FALSE]

\* Lines 149-159 (no identity header: customer_id comes in the body): draw a
\* key, INSERT it.  A digest already in the table (key_hash is UNIQUE) raises
\* IntegrityError: the handler dies with 500 and its connection is rolled back.
CreateInsert(p) ==
    /\ Starts(p, "create_api_key")
    /\ LockFree(p)
    /\ \E k \in Draws(api_keys) :
         /\ key' = [key EXCEPT ![p] = k]
         /\ IF HashTaken(api_keys, hash_api_key(k))
            THEN /\ txn' = txn
                 /\ resp' = [resp EXCEPT ![p] = HTTPException(500, "IntegrityError")]
                 /\ pc' = [pc EXCEPT ![p] = "done"]
                 /\ lastrowid' = lastrowid
            ELSE /\ txn' = [txn EXCEPT ![p] =
                      [Begin(p) EXCEPT !.api_keys =
                          Append(@, NewKeyRow(req[p].customer_id, k))]]
                 /\ lastrowid' = [lastrowid EXCEPT ![p] = Len(api_keys) + 1]
                 /\ pc' = [pc EXCEPT ![p] = "create_commit"]
                 /\ resp' = resp
    /\ UNCHANGED <<tables, req, old_key_id, ai_response, received, responder>>

\* Lines 160-170.
CreateCommit(p) ==
    /\ pc[p] = "create_commit"
    /\ api_keys' = txn[p].api_keys
    /\ txn' = [txn EXCEPT ![p] = NoTx]
    /\ resp' = [resp EXCEPT ![p] = [status |-> 200, key_id |-> lastrowid[p],
                                    api_key |-> key[p]]]
    /\ pc' = [pc EXCEPT ![p] = "done"]
    /\ UNCHANGED <<usage, billing, tickets, ticket_responses, req, locals, received, responder>>

\* ----------------------------------------------------------- rotate_api_key
\* The SELECT without AND revoked = 0.
RotateMatches_IgnoreRevoked(rows, c, h) ==
    {i \in 1..Len(rows) : rows[i].customer_id = c /\ rows[i].key_hash = h}

\* Ids of the rows the SELECT of lines 181-184 matches.
RotateMatches(rows, c, h) ==
    {i \in 1..Len(rows) : /\ rows[i].customer_id = c
                          /\ rows[i].key_hash = h
                          /\ ~rows[i].revoked}

Min(S) == CHOOSE x \in S : \A y \in S : x <= y

\* Lines 173-191: look the presented key up; 404 when no row matches.
RotateSelect(p) ==
    /\ Starts(p, "rotate_api_key")
    /\ IF verify_customer(req[p].header) # NoResp
       THEN Reject(p)
       ELSE LET result == RotateMatches(api_keys, req[p].header,
                                        hash_api_key(req[p].old_key))
            IN /\ IF result = {}
                  THEN /\ resp' = [resp EXCEPT ![p] =
                                     HTTPException(404, "API key not found")]
                       /\ pc' = [pc EXCEPT ![p] = "done"]
                       /\ old_key_id' = old_key_id
                  ELSE /\ old_key_id' = [old_key_id EXCEPT ![p] = Min(result)]
                       /\ pc' = [pc EXCEPT ![p] = "rotate_revoke"]
                       /\ resp' = resp
               /\ UNCHANGED <<tables, txn, key, lastrowid, ai_response>>
    /\ UNCHANGED <<req, received, responder>>

\* The UPDATE committed on its own (a connection in autocommit mode, or a
\* conn.commit() right after the UPDATE).
RotateRevoke_Autocommit(p) ==
    /\ pc[p] = "rotate_revoke"
    /\ LockFree(p)
    /\ api_keys' = [api_keys EXCEPT ![old_key_id[p]].revoked = TRUE]
    /\ pc' = [pc EXCEPT ![p] = "rotate_insert"]
    /\ UNCHANGED <<usage, billing, tickets, ticket_responses, txn, req, locals, resp,
                   received, responder>>

\* The UPDATE with WHERE customer_id = ? in place of WHERE id = ?.
RotateRevoke_AllOfCustomer(p) ==
    /\ pc[p] = "rotate_revoke"
    /\ LockFree(p)
    /\ txn' = [txn EXCEPT ![p] =
          [Begin(p) EXCEPT !.api_keys =
              [i \in 1..Len(@) |->
                  IF @[i].customer_id = req[p].header
                  THEN [@[i] EXCEPT !.revoked = TRUE]
                  ELSE @[i]]]]
    /\ pc' = [pc EXCEPT ![p] = "rotate_insert"]
    /\ UNCHANGED <<tables, req, locals, resp, received, responder>>

\* Line 194: UPDATE api_keys SET revoked = 1 WHERE id = ?  (opens the transaction).
RotateRevoke(p) ==
    /\ pc[p] = "rotate_revoke"
    /\ LockFree(p)
    /\ txn' = [txn EXCEPT ![p] =
          [Begin(p) EXCEPT !.api_keys[old_key_id[p]].revoked = TRUE]]
    /\ pc' = [pc EXCEPT ![p] = "rotate_insert"]
    /\ UNCHANGED <<tables, req, locals, resp, received, responder>>

\* Lines 197-202: draw the new key, INSERT it in the same transaction.  A digest
\* already in the table raises IntegrityError before the commit: 500, rolled back.
RotateInsert(p) ==
    /\ pc[p] = "rotate_insert"
    /\ LockFree(p)
    /\ \E k \in Draws(Begin(p).api_keys) :
         /\ key' = [key EXCEPT ![p] = k]
         /\ IF HashTaken(Begin(p).api_keys, hash_api_key(k))
            THEN /\ txn' = [txn EXCEPT ![p] = NoTx]
                 /\ resp' = [resp EXCEPT ![p] = HTTPException(500, "IntegrityError")]
                 /\ pc' = [pc EXCEPT ![p] = "done"]
                 /\ lastrowid' = lastrowid
            ELSE /\ txn' = [txn EXCEPT ![p] =
                      [Begin(p) EXCEPT !.api_keys =
                          Append(@, NewKeyRow(req[p].header, k))]]
                 /\ lastrowid' = [lastrowid EXCEPT ![p] = Len(Begin(p).api_keys) + 1]
                 /\ pc' = [pc EXCEPT ![p] = "rotate_commit"]
                 /\ resp' = resp
    /\ UNCHANGED <<tables, req, old_key_id, ai_response, received, responder>>

\* Lines 203-212.
RotateCommit(p) ==
    /\ pc[p] = "rotate_commit"
    /\ api_keys' = txn[p].api_keys
    /\ txn' = [txn EXCEPT ![p] = NoTx]
    /\ resp' = [resp EXCEPT ![p] = [status |-> 200, key_id |-> lastrowid[p],
                                    api_key |-> key[p]]]
    /\ pc' = [pc EXCEPT ![p] = "done"]
    /\ UNCHANGED <<usage, billing, tickets, ticket_responses, req, locals, received, responder>>

\* ------------------------------------------------------------ list_api_keys
\* The ids of a set of rows, highest first (ORDER BY created_at DESC: rows are
\* stamped in insertion order).
RECURSIVE Desc(_)
Desc(S) ==
    IF S = {} THEN <<>>
    ELSE LET m == CHOOSE x \in S : \A y \in S : y <= x
         IN <<m>> \o Desc(S \ {m})

\* Lines 215-235.  The name, created_at and last_used columns are not modelled.
ListKeys(p) ==
    /\ Starts(p, "list_api_keys")
    /\ IF verify_customer(req[p].header) # NoResp
       THEN Reject(p)
       ELSE LET ids == Desc({i \in 1..Len(api_keys) :
                                api_keys[i].customer_id = req[p].header})
            IN /\ resp' = [resp EXCEPT ![p] =
                     [status |-> 200,
                      keys |-> [j \in 1..Len(ids) |->
                                   [key_id |-> ids[j],
                                    revoked |-> api_keys[ids[j]].revoked]]]]
               /\ pc' = [pc EXCEPT ![p] = "done"]
               /\ UNCHANGED <<tables, txn, locals>>
    /\ UNCHANGED <<req, received, responder>>

\* ----------------------------------------------------------- revoke_api_key
\* The UPDATE with WHERE id = ? alone.
RevokeUpdate_AnyOwner(p) ==
    /\ Starts(p, "revoke_api_key")
    /\ IF verify_customer(req[p].header) # NoResp
       THEN Reject(p)
       ELSE /\ LockFree(p)
            /\ txn' = [txn EXCEPT ![p] =
                  [Begin(p) EXCEPT !.api_keys =
                      [i \in 1..Len(@) |->
                          IF i = req[p].key_id
                          THEN [@[i] EXCEPT !.revoked = TRUE]
                          ELSE @[i]]]]
            /\ pc' = [pc EXCEPT ![p] = "revoke_commit"]
            /\ UNCHANGED <<tables, locals, resp>>
    /\ UNCHANGED <<req, received, responder>>

\* Revocation as DELETE FROM api_keys WHERE id = ? AND customer_id = ?; the row
\* ids after the deleted one are kept by leaving a row owned by nobody.
RevokeUpdate_Delete(p) ==
    /\ Starts(p, "revoke_api_key")
    /\ IF verify_customer(req[p].header) # NoResp
       THEN Reject(p)
       ELSE /\ LockFree(p)
            /\ txn' = [txn EXCEPT ![p] =
                  [Begin(p) EXCEPT !.api_keys =
                      [i \in 1..Len(@) |->
                          IF i = req[p].key_id /\ @[i].customer_id = req[p].header
                          THEN [customer_id |-> "", key_hash |-> "", revoked |-> TRUE]
                          ELSE @[i]]]]
            /\ pc' = [pc EXCEPT ![p] = "revoke_commit"]
            /\ UNCHANGED <<tables, locals, resp>>
    /\ UNCHANGED <<req, received, responder>>

\* Lines 238-245: UPDATE api_keys SET revoked = 1 WHERE id = ? AND customer_id = ?
RevokeUpdate(p) ==
    /\ Starts(p, "revoke_api_key")
    /\ IF verify_customer(req[p].header) # NoResp
       THEN Reject(p)
       ELSE /\ LockFree(p)
            /\ txn' = [txn EXCEPT ![p] =
                  [Begin(p) EXCEPT !.api_keys =
                      [i \in 1..Len(@) |->
                          IF i = req[p].key_id /\ @[i].customer_id = req[p].header
                          THEN [@[i] EXCEPT !.revoked = TRUE]
                          ELSE @[i]]]]
            /\ pc' = [pc EXCEPT ![p] = "revoke_commit"]
            /\ UNCHANGED <<tables, locals, resp>>
    /\ UNCHANGED <<req, received, responder>>

\* Lines 246-248.
RevokeCommit(p) ==
    /\ pc[p] = "revoke_commit"
    /\ api_keys' = txn[p].api_keys
    /\ txn' = [txn EXCEPT ![p] = NoTx]
    /\ resp' = [resp EXCEPT ![p] = [status |-> 200, message |-> "API key revoked"]]
    /\ pc' = [pc EXCEPT ![p] = "done"]
    /\ UNCHANGED <<usage, billing, tickets, ticket_responses, req, locals, received, responder>>

\* ------------------------------------------------------ generate_ai_response
UpperCase == "ABCDEFGHIJKLMNOPQRSTUVWXYZ"
LowerCase == "abcdefghijklmnopqrstuvwxyz"

\* str.lower() on one character: each upper-case letter to its lower-case one.
LowerOf ==
    [c \in {SubSeq(UpperCase, i, i) : i \in 1..Len(UpperCase)} |->
        LET i == CHOOSE i \in 1..Len(UpperCase) : SubSeq(UpperCase, i, i) = c
        IN SubSeq(LowerCase, i, i)]

LowerChar(c) == IF c \in DOMAIN LowerOf THEN LowerOf[c] ELSE c

\* str.lower()
RECURSIVE lower(_)
lower(s) ==
    IF s = "" THEN ""
    ELSE LowerChar(SubSeq(s, 1, 1)) \o lower(SubSeq(s, 2, Len(s)))

\* Python's `k in t` on strings.
In(k, t) == \E i \in 1..(Len(t) + 1 - Len(k)) : SubSeq(t, i, i + Len(k) - 1) = k

\* Lines 406-412, 416-422, 426-432, 436-441: the canned responses.
KeyResponse ==
    "To rotate your API key:\n1. Go to the 'API Keys' tab\n2. Click 'Rotate Key' next to your current key\n3. Save the new key immediately (it won't be shown again)\n\nYour old key will be revoked automatically."
UsageResponse ==
    "You can view your real-time usage statistics on the dashboard:\n- Today's requests\n- This month's total\n- All-time usage\n\nVisit the 'Usage' tab for detailed analytics."
BillingResponse ==
    "Your billing history is available in the 'Billing' tab. You'll find:\n- All invoices (last 12 months)\n- Payment status\n- Usage breakdown\n\nFor refunds or billing disputes, please reply to this ticket and we'll prioritize it."
RateLimitResponse ==
    "You've hit your rate limit. Check the 'Usage' tab for:\n- Current limit remaining\n- Reset time (usually midnight UTC)\n\nTo increase your limit, upgrade your plan or contact us for custom limits."

\* generate_ai_response with the billing rule tried before the usage rule.
generate_ai_response_BillingFirst(subject, message, category) ==
    LET text == lower(subject \o " " \o message)
    IN IF In("api key", text) \/ In("reset key", text)
       THEN KeyResponse
       ELSE IF In("bill", text) \/ In("charge", text) \/ In("invoice", text)
       THEN BillingResponse
       ELSE IF In("usage", text) \/ In("how many", text) \/ In("calls", text)
       THEN UsageResponse
       ELSE IF In("429", text) \/ In("rate limit", text) \/ In("too many requests", text)
       THEN RateLimitResponse
       ELSE None

\* Lines 400-444.
generate_ai_response(subject, message, category) ==
    LET text == lower(subject \o " " \o message)
    IN IF In("api key", text) \/ In("reset key", text)
       THEN KeyResponse
       ELSE IF In("usage", text) \/ In("how many", text) \/ In("calls", text)
       THEN UsageResponse
       ELSE IF In("bill", text) \/ In("charge", text) \/ In("invoice", text)
       THEN BillingResponse
       ELSE IF In("429", text) \/ In("rate limit", text) \/ In("too many requests", text)
       THEN RateLimitResponse
       ELSE None

\* ------------------------------------------------------------ create_ticket
\* Subjects and messages customers submit.
TicketSubjects == {"Need to reset key", "Hello"}
TicketMessages == {"help"}

\* The requests a client can send to the ticket, usage and billing endpoints.
TicketRequests ==
    {[op |-> "create_ticket", header |-> h, subject |-> s, message |-> m,
      category |-> "general"] : h \in Customers, s \in TicketSubjects, m \in TicketMessages}
    \cup {[op |-> "create_ticket", header |-> h, subject |-> "Hello", message |-> "help",
           category |-> "general"] : h \in {Absent, ""}}
    \cup {[op |-> "list_tickets", header |-> h] : h \in Headers}
    \cup {[op |-> "get_ticket_responses", header |-> h, ticket_id |-> id] :
              h \in Customers, id \in TicketIds}
    \cup {[op |-> "get_ticket_responses", header |-> h, ticket_id |-> 1] :
              h \in {Absent, ""}}
    \cup {[op |-> "get_usage_stats", header |-> h] : h \in Headers}
    \cup {[op |-> "get_billing_history", header |-> h] : h \in Headers}

ReceiveTicketRequest(p) == \E r \in TicketRequests : Receive(p, r)

\* Lines 314-322: INSERT INTO tickets; status and ai_responded take their
\* column defaults.
TicketInsert(p) ==
    /\ Starts(p, "create_ticket")
    /\ IF verify_customer(req[p].header) # NoResp
       THEN Reject(p)
       ELSE /\ LockFree(p)
            /\ txn' = [txn EXCEPT ![p] =
                  [Begin(p) EXCEPT !.tickets =
                      Append(@, [customer_id |-> req[p].header,
                                 subject |-> req[p].subject,
                                 message |-> req[p].message,
                                 category |-> req[p].category,
                                 status |-> "open", ai_responded |-> FALSE])]]
            /\ lastrowid' = [lastrowid EXCEPT ![p] = Len(tickets) + 1]
            /\ pc' = [pc EXCEPT ![p] = "ticket_commit"]
            /\ UNCHANGED <<tables, old_key_id, key, ai_response, resp>>
    /\ UNCHANGED <<req, received, responder>>

\* Lines 323-324: the first commit; ticket_id = c.lastrowid.
TicketCommit(p) ==
    /\ pc[p] = "ticket_commit"
    /\ tickets' = txn[p].tickets
    /\ ticket_responses' = txn[p].ticket_responses
    /\ txn' = [txn EXCEPT ![p] = NoTx]
    /\ pc' = [pc EXCEPT ![p] = "ticket_respond"]
    /\ UNCHANGED <<api_keys, usage, billing, req, locals, resp, received, responder>>

\* What create_ticket returns (lines 339-344).
TicketCreated(id, answer) ==
    [status |-> 200, ticket_id |-> id, ticket_status |-> "open",
     ai_responded |-> (answer # None)]

\* TicketRespond without the UPDATE tickets SET ai_responded = 1.
TicketRespond_NoFlag(p) ==
    /\ pc[p] = "ticket_respond"
    /\ LET answer == generate_ai_response(req[p].subject, req[p].message, req[p].category)
           ticket_id == lastrowid[p]
       IN /\ ai_response' = [ai_response EXCEPT ![p] = answer]
          /\ IF answer # None /\ answer # ""
             THEN /\ LockFree(p)
                  /\ txn' = [txn EXCEPT ![p] =
                        [Begin(p) EXCEPT
                           !.ticket_responses =
                               Append(@, [ticket_id |-> ticket_id, from_agent |-> FALSE,
                                          message |-> answer])]]
                  /\ pc' = [pc EXCEPT ![p] = "ticket_commit2"]
                  /\ resp' = resp
             ELSE /\ txn' = txn
                  /\ pc' = [pc EXCEPT ![p] = "done"]
                  /\ resp' = [resp EXCEPT ![p] = TicketCreated(ticket_id, answer)]
    /\ UNCHANGED <<tables, req, old_key_id, key, lastrowid, received, responder>>

\* Lines 327-334: ask the auto-responder; with a response, INSERT it and flag the
\* ticket (second transaction); without, return.
TicketRespond(p) ==
    /\ pc[p] = "ticket_respond"
    /\ LET answer == generate_ai_response(req[p].subject, req[p].message, req[p].category)
           ticket_id == lastrowid[p]
       IN /\ ai_response' = [ai_response EXCEPT ![p] = answer]
          /\ IF answer # None /\ answer # ""
             THEN /\ LockFree(p)
                  /\ txn' = [txn EXCEPT ![p] =
                        [Begin(p) EXCEPT
                           !.ticket_responses =
                               Append(@, [ticket_id |-> ticket_id, from_agent |-> FALSE,
                                          message |-> answer]),
                           !.tickets[ticket_id].ai_responded = TRUE]]
                  /\ pc' = [pc EXCEPT ![p] = "ticket_commit2"]
                  /\ resp' = resp
             ELSE /\ txn' = txn
                  /\ pc' = [pc EXCEPT ![p] = "done"]
                  /\ resp' = [resp EXCEPT ![p] = TicketCreated(ticket_id, answer)]
    /\ UNCHANGED <<tables, req, old_key_id, key, lastrowid, received, responder>>

\* Lines 335-344: the second commit, then the response.
TicketCommit2(p) ==
    /\ pc[p] = "ticket_commit2"
    /\ tickets' = txn[p].tickets
    /\ ticket_responses' = txn[p].ticket_responses
    /\ txn' = [txn EXCEPT ![p] = NoTx]
    /\ pc' = [pc EXCEPT ![p] = "done"]
    /\ resp' = [resp EXCEPT ![p] = TicketCreated(lastrowid[p], ai_response[p])]
    /\ UNCHANGED <<api_keys, usage, billing, req, locals, received, responder>>

\* -------------------------------------------------------------- list_tickets
\* Lines 347-369.  created_at is not modelled.
ListTickets(p) ==
    /\ Starts(p, "list_tickets")
    /\ IF verify_customer(req[p].header) # NoResp
       THEN Reject(p)
       ELSE LET ids == Desc({i \in 1..Len(tickets) :
                                tickets[i].customer_id = req[p].header})
            IN /\ resp' = [resp EXCEPT ![p] =
                     [status |-> 200,
                      tickets |-> [j \in 1..Len(ids) |->
                          [id |-> ids[j],
                           subject |-> tickets[ids[j]].subject,
                           message |-> tickets[ids[j]].message,
                           category |-> tickets[ids[j]].category,
                           status |-> tickets[ids[j]].status,
                           ai_responded |-> tickets[ids[j]].ai_responded]]]]
               /\ pc' = [pc EXCEPT ![p] = "done"]
               /\ UNCHANGED <<tables, txn, locals>>
    /\ UNCHANGED <<req, received, responder>>

\* ------------------------------------------------------ get_ticket_responses
\* ResponsesCheck with SELECT id FROM tickets WHERE id = ? (no customer_id).
ResponsesCheck_AnyOwner(p) ==
    /\ Starts(p, "get_ticket_responses")
    /\ IF verify_customer(req[p].header) # NoResp
       THEN Reject(p)
       ELSE /\ IF \E i \in 1..Len(tickets) : i = req[p].ticket_id
               THEN /\ pc' = [pc EXCEPT ![p] = "responses_read"]
                    /\ resp' = resp
               ELSE /\ pc' = [pc EXCEPT ![p] = "done"]
                    /\ resp' = [resp EXCEPT ![p] = HTTPException(404, "Ticket not found")]
            /\ UNCHANGED <<tables, txn, locals>>
    /\ UNCHANGED <<req, received, responder>>

\* Lines 372-381: the ticket must be the caller's, else 404.
ResponsesCheck(p) ==
    /\ Starts(p, "get_ticket_responses")
    /\ IF verify_customer(req[p].header) # NoResp
       THEN Reject(p)
       ELSE /\ IF \E i \in 1..Len(tickets) :
                     i = req[p].ticket_id /\ tickets[i].customer_id = req[p].header
               THEN /\ pc' = [pc EXCEPT ![p] = "responses_read"]
                    /\ resp' = resp
               ELSE /\ pc' = [pc EXCEPT ![p] = "done"]
                    /\ resp' = [resp EXCEPT ![p] = HTTPException(404, "Ticket not found")]
            /\ UNCHANGED <<tables, txn, locals>>
    /\ UNCHANGED <<req, received, responder>>

\* The rows of ticket_responses of one ticket, in insertion order (ORDER BY
\* created_at ASC), as the handler shapes them.
RECURSIVE ResponsesOf(_, _)
ResponsesOf(rows, id) ==
    IF rows = <<>> THEN <<>>
    ELSE IF Head(rows).ticket_id = id
         THEN <<[from_agent |-> Head(rows).from_agent, message |-> Head(rows).message]>>
              \o ResponsesOf(Tail(rows), id)
         ELSE ResponsesOf(Tail(rows), id)

\* Lines 383-397.
ResponsesRead(p) ==
    /\ pc[p] = "responses_read"
    /\ resp' = [resp EXCEPT ![p] =
          [status |-> 200,
           responses |-> ResponsesOf(ticket_responses, req[p].ticket_id)]]
    /\ pc' = [pc EXCEPT ![p] = "done"]
    /\ UNCHANGED <<tables, txn, req, locals, received, responder>>

\* ------------------------------------------- get_usage_stats, get_billing_history
\* Line 279.
rate_limit == 1000
\* Line 298: LIMIT 12.
BillingLimit == 12

\* Lines 251-288.  A usage row carries whether its timestamp falls on today's
\* date and in this month.
UsageStats(p) ==
    /\ Starts(p, "get_usage_stats")
    /\ IF verify_customer(req[p].header) # NoResp
       THEN Reject(p)
       ELSE LET mine == {i \in 1..Len(usage) : usage[i].customer_id = req[p].header}
                today == Cardinality({i \in mine : usage[i].today})
                this_month == Cardinality({i \in mine : usage[i].this_month})
                all_time == Cardinality(mine)
            IN /\ resp' = [resp EXCEPT ![p] =
                     [status |-> 200, today |-> today, this_month |-> this_month,
                      all_time |-> all_time,
                      current_rate_limit |-> rate_limit - today,
                      rate_limit_reset |-> IF today > 0 THEN "next midnight" ELSE None]]
               /\ pc' = [pc EXCEPT ![p] = "done"]
               /\ UNCHANGED <<tables, txn, locals>>
    /\ UNCHANGED <<req, received, responder>>

\* Lines 291-311.
BillingHistory(p) ==
    /\ Starts(p, "get_billing_history")
    /\ IF verify_customer(req[p].header) # NoResp
       THEN Reject(p)
       ELSE LET ids == Desc({i \in 1..Len(billing) :
                                billing[i].customer_id = req[p].header})
                n == IF Len(ids) < BillingLimit THEN Len(ids) ELSE BillingLimit
            IN /\ resp' = [resp EXCEPT ![p] =
                     [status |-> 200,
                      history |-> [j \in 1..n |->
                          [invoice_id |-> billing[ids[j]].invoice_id,
                           description |->
                               IF billing[ids[j]].description = None
                               THEN "API Usage"
                               ELSE billing[ids[j]].description]]]]
               /\ pc' = [pc EXCEPT ![p] = "done"]
               /\ UNCHANGED <<tables, txn, locals>>
    /\ UNCHANGED <<req, received, responder>>

\* ------------------------------------------------------------------ crashes
\* The worker dies while its transaction is open (process killed, connection
\* lost): nothing was committed, SQLite rolls the transaction back, no response.
Crash(p) ==
    /\ txn[p].open
    /\ txn' = [txn EXCEPT ![p] = NoTx]
    /\ pc' = [pc EXCEPT ![p] = "aborted"]
    /\ UNCHANGED <<tables, req, locals, resp, received, responder>>

\* ------------------------------------------------------------ the key system
NextKeys ==
    \E p \in Procs :
        \/ ReceiveKeyRequest(p)
        \/ CreateInsert(p)
        \/ CreateCommit(p)
        \/ RotateSelect(p)
        \/ RotateRevoke(p)
        \/ RotateInsert(p)
        \/ RotateCommit(p)
        \/ ListKeys(p)
        \/ RevokeUpdate(p)
        \/ RevokeCommit(p)
        \/ Crash(p)

SpecKeys == Init /\ [][NextKeys]_vars

\* ---------------------------------------------- tickets, usage and billing
NextTickets ==
    \E p \in Procs :
        \/ ReceiveTicketRequest(p)
        \/ TicketInsert(p)
        \/ TicketCommit(p)
        \/ TicketRespond(p)
        \/ TicketCommit2(p)
        \/ ListTickets(p)
        \/ ResponsesCheck(p)
        \/ ResponsesRead(p)
        \/ UsageStats(p)
        \/ BillingHistory(p)
        \/ Crash(p)

SpecTickets == Init /\ [][NextTickets]_vars

\* ------------------------------------------------- the auto-responder alone
\* Subjects and messages given to generate_ai_response: every keyword of every
\* set in some casing, keywords of several sets together, keywords cut in two
\* between subject and message, and texts without a keyword.
Subjects ==
    {"", "API Key", "Need to reset key", "api", "My USAGE", "How Many calls",
     "us", "Bill", "too many", "rate", "Charge on INVOICE", "Error 429",
     "Rate Limit hit", "Hello there", "reset"}
Messages ==
    {"", "help", "key", "age", "limit", "requests", "Too Many Requests",
     "usage of my api key", "invoice and rate limit", "billing for 1429 calls",
     "nothing to see"}

InitResponder ==
    /\ InitService
    /\ r_subject \in Subjects
    /\ r_message \in Messages
    /\ r_out = ""

\* The call generate_ai_response(subject, message, category) of line 327.
CallResponder ==
    /\ r_out = ""
    /\ r_out' = generate_ai_response(r_subject, r_message, "general")
    /\ UNCHANGED <<tables, workers, r_subject, r_message>>

NextResponder == CallResponder

SpecResponder == InitResponder /\ [][NextResponder]_vars

\* -------------------------------------------------------- the whole service
Next == NextKeys \/ NextTickets

Spec == Init /\ [][Next]_vars

\* ====================================================================== claims

\* ---------------------------------------------------------------------- C6
\* The four keyword sets in priority order, each with its canned response.
KeywordSets ==
    << [keywords |-> {"api key", "reset key"}, response |-> KeyResponse],
       [keywords |-> {"usage", "how many", "calls"}, response |-> UsageResponse],
       [keywords |-> {"bill", "charge", "invoice"}, response |-> BillingResponse],
       [keywords |-> {"429", "rate limit", "too many requests"},
        response |-> RateLimitResponse] >>

\* Two characters are the same up to letter case.
SameLetter(a, b) ==
    \/ a = b
    \/ \E n \in 1..Len(UpperCase) :
          {a, b} = {SubSeq(UpperCase, n, n), SubSeq(LowerCase, n, n)}

\* Keyword k occurs in t as a substring, whatever the casing of t.
Occurs(k, t) ==
    \E i \in 1..(Len(t) + 1 - Len(k)) :
        \A j \in 1..Len(k) : SameLetter(SubSeq(t, i + j - 1, i + j - 1), SubSeq(k, j, j))

\* The sets that have a keyword in t.
Present(t) == {n \in 1..Len(KeywordSets) : \E k \in KeywordSets[n].keywords : Occurs(k, t)}

\* The response of the highest-priority set present in t, None when none is.
FirstMatch(t) ==
    IF Present(t) = {} THEN None ELSE KeywordSets[Min(Present(t))].response

\* C6 as amended: generate_ai_response returns the canned response of the
\* highest-priority keyword set (API-key, usage, billing, rate-limit) that has a
\* keyword, case-insensitively, in the subject, a space and the message joined,
\* and None exactly when no set has one.
C6_FirstMatchOfJoinedText ==
    r_out # "" => r_out = FirstMatch(r_subject \o " " \o r_message)

\* C6 as claimed: the keywords are looked for in subject+message, the subject
\* directly followed by the message.
C6_FirstMatchOfConcatenation ==
    r_out # "" => r_out = FirstMatch(r_subject \o r_message)

\* C6 witness: keywords of the usage, billing and rate-limit sets are present in
\* mixed case, none of the API-key set, and the usage response was returned.
C6_Witness ==
    /\ r_out = UsageResponse
    /\ Present(r_subject \o " " \o r_message) = {2, 3, 4}
    /\ r_subject # lower(r_subject)

\* ---------------------------------------------------------------------- C7
\* Rows of ticket_responses that belong to ticket t.
RowsOfTicket(t) == {i \in 1..Len(ticket_responses) : ticket_responses[i].ticket_id = t}

\* What the claim expects the auto-responder to answer to each ticket text.
ExpectedAnswer ==
    [s \in TicketSubjects, m \in TicketMessages |-> FirstMatch(s \o " " \o m)]

\* A create_ticket request that has returned.
TicketReturned(p) ==
    pc[p] = "done" /\ req[p].op = "create_ticket" /\ resp[p].status = 200

\* C7: in every committed state of the store (between the two commits of
\* create_ticket too) a ticket has ai_responded set iff exactly one response row,
\* a non-agent one, exists for it, and unset iff no response row exists for it;
\* and once create_ticket has returned, the ai_responded it returned equals the
\* stored flag, is true exactly when a canned response was stored for the ticket,
\* which happens exactly when the ticket's text holds a keyword, and the ticket
\* is still open.
C7_FlagMatchesResponses ==
    /\ \A t \in 1..Len(tickets) :
          /\ tickets[t].ai_responded <=>
                /\ Cardinality(RowsOfTicket(t)) = 1
                /\ \A i \in RowsOfTicket(t) : ~ticket_responses[i].from_agent
          /\ ~tickets[t].ai_responded <=> RowsOfTicket(t) = {}
    /\ \A p \in Procs :
          TicketReturned(p) =>
              LET t == resp[p].ticket_id
              IN /\ t \in 1..Len(tickets)
                 /\ tickets[t].subject = req[p].subject
                 /\ tickets[t].message = req[p].message
                 /\ resp[p].ai_responded = tickets[t].ai_responded
                 /\ resp[p].ai_responded <=>
                        ExpectedAnswer[tickets[t].subject, tickets[t].message] # None
                 /\ resp[p].ai_responded =>
                        \A i \in RowsOfTicket(t) :
                            ticket_responses[i].message =
                                ExpectedAnswer[tickets[t].subject, tickets[t].message]
                 /\ tickets[t].status = "open"
                 /\ resp[p].ticket_status = "open"

\* C7 witness: one create_ticket has returned ai_responded = true with its
\* "Rotate Key" response stored, while another is between its two commits: its
\* ticket is committed, its response is written but not yet committed.
C7_Witness ==
    \E p, q \in Procs :
        /\ TicketReturned(p)
        /\ resp[p].ai_responded
        /\ req[p].subject = "Need to reset key"
        /\ \E i \in RowsOfTicket(resp[p].ticket_id) :
              In("Rotate Key", ticket_responses[i].message)
        /\ pc[q] = "ticket_commit2"
        /\ lastrowid[q] \in 1..Len(tickets)
        /\ ~tickets[lastrowid[q]].ai_responded

\* ---------------------------------------------------------------------- C5
\* C5: list_tickets for customer C returns only tickets whose customer_id is C,
\* with their own content; get_ticket_responses answers 404 whenever the ticket
\* does not exist or is owned by another customer, and otherwise returns only
\* response rows of that ticket of C.
C5_OnlyOwnTickets ==
    \A p \in Procs :
        (pc[p] = "done" /\ req[p].header \in Customers) =>
            /\ req[p].op = "list_tickets" =>
                  /\ resp[p].status = 200
                  /\ \A j \in 1..Len(resp[p].tickets) :
                        LET t == resp[p].tickets[j].id
                        IN /\ t \in 1..Len(tickets)
                           /\ tickets[t].customer_id = req[p].header
                           /\ tickets[t].subject = resp[p].tickets[j].subject
                           /\ tickets[t].message = resp[p].tickets[j].message
            /\ req[p].op = "get_ticket_responses" =>
                  LET t == req[p].ticket_id
                      own == t \in 1..Len(tickets) /\ tickets[t].customer_id = req[p].header
                  IN /\ ~own => resp[p].status = 404
                     /\ resp[p].status \in {200, 404}
                     /\ resp[p].status = 200 =>
                           /\ own
                           /\ Len(resp[p].responses) <= Cardinality(RowsOfTicket(t))
                           /\ \A j \in 1..Len(resp[p].responses) :
                                 \E i \in RowsOfTicket(t) :
                                     /\ ticket_responses[i].message =
                                            resp[p].responses[j].message
                                     /\ ticket_responses[i].from_agent =
                                            resp[p].responses[j].from_agent

\* C5 witness: a customer asked for the responses of an existing ticket of the
\* other customer, one that has a stored response, and got 404; and a customer's
\* list came back without that ticket.
C5_Witness ==
    \E p, q \in Procs :
        /\ pc[p] = "done" /\ req[p].op = "get_ticket_responses"
        /\ req[p].header \in Customers
        /\ req[p].ticket_id \in 1..Len(tickets)
        /\ tickets[req[p].ticket_id].customer_id # req[p].header
        /\ RowsOfTicket(req[p].ticket_id) # {}
        /\ resp[p].status = 404
        /\ pc[q] = "done" /\ req[q].op = "list_tickets"
        /\ req[q].header = req[p].header
        /\ resp[q].status = 200 /\ resp[q].tickets = <<>>

\* ---------------------------------------------------------------------- C8
IdentityScoped ==
    {"rotate_api_key", "list_api_keys", "revoke_api_key", "get_usage_stats",
     "get_billing_history", "create_ticket", "list_tickets", "get_ticket_responses"}

\* C8: an identity-scoped request sent without the X-Customer-ID header is
\* answered 401 Unauthorized.
C8_MissingHeaderUnauthorized ==
    \A p \in Procs :
        (pc[p] = "done" /\ req[p].op \in IdentityScoped /\ req[p].header = Absent)
            => resp[p].status = 401

\* ---------------------------------------------------------------------- C1
\* Worker p, running rotate_api_key past its SELECT, takes a step.
RotateStep(p) ==
    /\ req[p].op = "rotate_api_key"
    /\ pc[p] \in {"rotate_revoke", "rotate_insert", "rotate_commit"}
    /\ pc'[p] # pc[p]

\* The committed table after the step holds the whole rotation of p: the old key
\* revoked and one more row, the customer's new non-revoked key.
RotationApplied(p) ==
    /\ Len(api_keys') = Len(api_keys) + 1
    /\ api_keys'[old_key_id[p]].revoked
    /\ api_keys'[Len(api_keys')].customer_id = req[p].header
    /\ ~api_keys'[Len(api_keys')].revoked
    /\ api_keys'[Len(api_keys')].key_hash = hash_api_key(key[p])

\* C1: rotation is all-or-nothing in the committed store: every step of a
\* rotation (its statements, its commit, a crash between the revoke and the
\* insert, a failing insert) either leaves the committed api_keys table as it
\* was or puts both the revoke and the new row in it.
C1_RotationAllOrNothing ==
    [][\A p \in Procs : RotateStep(p) => (api_keys' = api_keys \/ RotationApplied(p))]_vars

\* C1 witness: one rotation crashed after its revoke statement and before its
\* insert, another had its insert fail on the UNIQUE digest, and the key they
\* both presented is still not revoked in the committed table.
C1_Witness ==
    \E p, q \in Procs :
        /\ pc[p] = "aborted" /\ req[p].op = "rotate_api_key"
        /\ old_key_id[p] # 0 /\ key[p] = ""
        /\ ~api_keys[old_key_id[p]].revoked
        /\ pc[q] = "done" /\ req[q].op = "rotate_api_key"
        /\ old_key_id[q] = old_key_id[p]
        /\ resp[q].status = 500

\* ---------------------------------------------------------------------- C2
\* Worker p's rotate_api_key returns successfully at this step.
RotateSucceeds(p) ==
    /\ req[p].op = "rotate_api_key"
    /\ pc[p] # "done" /\ pc'[p] = "done"
    /\ resp'[p].status = 200

\* C2: when a rotate_api_key call by customer C presenting token T succeeds, the
\* row whose digest is hash(T) is revoked, exactly one row is added, a
\* non-revoked key of C that is the one returned, and no other row changes.
C2_SuccessfulRotation ==
    [][\A p \in Procs : RotateSucceeds(p) =>
          LET old == {i \in 1..Len(api_keys) :
                         api_keys[i].key_hash = hash_api_key(req[p].old_key)}
              new == Len(api_keys) + 1
          IN /\ Cardinality(old) = 1
             /\ Len(api_keys') = new
             /\ \A i \in old :
                   /\ api_keys'[i] = [api_keys[i] EXCEPT !.revoked = TRUE]
                   /\ api_keys[i].customer_id = req[p].header
             /\ \A i \in (1..Len(api_keys)) \ old : api_keys'[i] = api_keys[i]
             /\ api_keys'[new] = [customer_id |-> req[p].header,
                                  key_hash |-> hash_api_key(resp'[p].api_key),
                                  revoked |-> FALSE]
             /\ resp'[p].key_id = new
             /\ resp'[p].api_key # req[p].old_key]_vars

\* C2 witness: a rotation has returned 200 for a customer who had a second key,
\* which is still not revoked.
C2_Witness ==
    \E p \in Procs :
        /\ pc[p] = "done" /\ req[p].op = "rotate_api_key" /\ resp[p].status = 200
        /\ api_keys[old_key_id[p]].revoked
        /\ ~api_keys[resp[p].key_id].revoked
        /\ \E i \in 1..Len(api_keys) :
              /\ i \notin {old_key_id[p], resp[p].key_id}
              /\ api_keys[i].customer_id = req[p].header
              /\ ~api_keys[i].revoked

\* ---------------------------------------------------------------------- C3
\* Customer c holds a non-revoked key whose digest is that of token k.
HoldsLiveKey(c, k) ==
    \E i \in 1..Len(api_keys) :
        /\ api_keys[i].customer_id = c
        /\ api_keys[i].key_hash = hash_api_key(k)
        /\ api_keys[i].revoked = FALSE

\* C3: a rotate_api_key request of customer C whose token matches no non-revoked
\* key row of C returns 404 at once and leaves the store as it was: nothing is
\* revoked, nothing inserted, no transaction opened.
C3_RotateUnknownKeyNotFound ==
    [][\A p \in Procs :
          ( /\ Starts(p, "rotate_api_key")
            /\ pc'[p] # pc[p]
            /\ req[p].header \in Customers
            /\ ~HoldsLiveKey(req[p].header, req[p].old_key) )
          => /\ pc'[p] = "done"
             /\ resp'[p].status = 404
             /\ api_keys' = api_keys
             /\ txn' = txn]_vars

\* C3 witness: 404 was returned to a customer who presented a key of their own
\* that is revoked.
C3_Witness ==
    \E p \in Procs :
        /\ pc[p] = "done" /\ req[p].op = "rotate_api_key" /\ resp[p].status = 404
        /\ \E i \in 1..Len(api_keys) :
              /\ api_keys[i].key_hash = hash_api_key(req[p].old_key)
              /\ api_keys[i].customer_id = req[p].header
              /\ api_keys[i].revoked

\* ---------------------------------------------------------------------- C4
\* key_id is a non-revoked key of the customer who asks.
OwnLiveKey(p) ==
    /\ req[p].key_id \in 1..Len(api_keys)
    /\ api_keys[req[p].key_id].customer_id = req[p].header
    /\ ~api_keys[req[p].key_id].revoked

\* C4: revoke_api_key by customer C answers success whatever key_id is; a key_id
\* that does not exist, is another customer's or is already revoked leaves
\* every row as it was, and a non-revoked key of C has only its revoked field
\* changed.
C4_RevokeScopedToCustomer ==
    [][\A p \in Procs :
          ( /\ req[p].op = "revoke_api_key"
            /\ req[p].header \in Customers
            /\ pc[p] \in {"received", "revoke_commit"}
            /\ pc'[p] # pc[p] )
          => /\ pc[p] = "received" => api_keys' = api_keys
             /\ pc'[p] = "done" =>
                   /\ resp'[p].status = 200
                   /\ IF OwnLiveKey(p)
                      THEN api_keys' = [api_keys EXCEPT ![req[p].key_id].revoked = TRUE]
                      ELSE api_keys' = api_keys]_vars

\* C4 witness: revoking another customer's non-revoked key was answered with
\* success, and the key is still not revoked.
C4_Witness ==
    \E p \in Procs :
        /\ pc[p] = "done" /\ req[p].op = "revoke_api_key" /\ resp[p].status = 200
        /\ req[p].key_id \in 1..Len(api_keys)
        /\ api_keys[req[p].key_id].customer_id \in Customers \ {req[p].header}
        /\ ~api_keys[req[p].key_id].revoked

\* ---------------------------------------------------------------------- C9
\* C9: of the rotate_api_key requests that present the same token, at most one
\* succeeds.
C9_OneRotationPerKey ==
    \A p, q \in Procs :
        ( /\ p # q
          /\ pc[p] = "done" /\ req[p].op = "rotate_api_key"
          /\ pc[q] = "done" /\ req[q].op = "rotate_api_key"
          /\ req[p].old_key = req[q].old_key )
        => ~(resp[p].status = 200 /\ resp[q].status = 200)

\* ---------------------------------------------------------------------- C10
\* C10: no step deletes an api_keys row, changes a row's customer_id or
\* key_hash, or turns revoked from true back to false.
C10_KeyRowsOnlyGetRevoked ==
    [][/\ Len(api_keys') >= Len(api_keys)
       /\ \A i \in 1..Len(api_keys) :
             /\ api_keys'[i].customer_id = api_keys[i].customer_id
             /\ api_keys'[i].key_hash = api_keys[i].key_hash
             /\ api_keys[i].revoked => api_keys'[i].revoked]_vars

\* C10 witness: a key was created, revoked, and further keys were issued after
\* it by create and by rotate.
C10_Witness ==
    /\ Len(api_keys) >= 3
    /\ api_keys[1].revoked
    /\ \E p \in Procs : pc[p] = "done" /\ req[p].op = "rotate_api_key"
                        /\ resp[p].status = 200

====
